---- MODULE Spec2Model ----
(***************************************************************************)
(* Model of moonraker/components/ai_detection.py (class AiDetection).     *)
(*                                                                         *)
(* Strings that end up in file names are sequences of one-character       *)
(* strings, so that concatenation, lower(), endswith() and                 *)
(* os.path.splitext() are computed the way Python computes them.           *)
(* Error messages are sequences of text pieces (an f-string is the         *)
(* concatenation of its pieces).                                           *)
(***************************************************************************)
EXTENDS Integers, Sequences, FiniteSets, TLC

\* ------------------------------------------------------------------ bounds
MaxOps == 2
MaxTicks == 1
StartTime == 9

Ops == 1..MaxOps

\* ----------------------------------------------------------- string helpers
DotJpg == <<".", "j", "p", "g">>
DotJpeg == <<".", "j", "p", "e", "g">>
DotPng == <<".", "p", "n", "g">>

\* the tuple ('.jpg', '.jpeg', '.png') of the upload handler
AllowedExt == {DotJpg, DotJpeg, DotPng}

LowerChar(c) ==
    CASE c = "A" -> "a"
      [] c = "E" -> "e"
      [] c = "G" -> "g"
      [] c = "J" -> "j"
      [] c = "N" -> "n"
      [] c = "P" -> "p"
      [] OTHER -> c

\* str.lower()
Lower(s) == [i \in 1..Len(s) |-> LowerChar(s[i])]

\* str.endswith(suffix)
EndsWith(s, suf) ==
    /\ Len(suf) <= Len(s)
    /\ SubSeq(s, Len(s) - Len(suf) + 1, Len(s)) = suf

\* str.endswith(tuple)
EndsWithAny(s, sufs) == \E suf \in sufs : EndsWith(s, suf)

\* str.rfind(c): the last index of c, 0 when absent (Python: -1)
RFind(s, c) ==
    LET hits == {i \in 1..Len(s) : s[i] = c}
    IN  IF hits = {} THEN 0 ELSE CHOOSE i \in hits : \A j \in hits : j <= i

\* os.path.splitext(p)[1]: the text from the last dot of the last path
\* component, unless that component has only dots before it
SplitExt(p) ==
    LET sepIndex == RFind(p, "/")
        dotIndex == RFind(p, ".")
    IN  IF dotIndex > sepIndex
           /\ \E k \in (sepIndex + 1)..(dotIndex - 1) : p[k] # "."
        THEN SubSeq(p, dotIndex, Len(p))
        ELSE <<>>

DigitChar(d) == <<"0", "1", "2", "3", "4", "5", "6", "7", "8", "9">>[d + 1]

RECURSIVE IntToStr(_)
\* str(n) of a non-negative integer
IntToStr(n) ==
    IF n < 10 THEN <<DigitChar(n)>>
    ELSE IntToStr(n \div 10) \o <<DigitChar(n % 10)>>

\* ----------------------------------------------------------------- values
NoName == <<>>
Null == <<"null">>

\* the outcome of a call: nothing yet, a returned value, or a raised error
NoOutcome == [kind |-> "none", status |-> 0, msg |-> <<>>, data |-> Null]
Returned(d) == [kind |-> "returned", status |-> 200, msg |-> <<>>, data |-> d]
\* self.server.error(message, status_code)
ServerError(m, code) == [kind |-> "raised", status |-> code, msg |-> m, data |-> Null]
\* an exception that is no ServerError (it carries no HTTP status)
RawError(m) == [kind |-> "raised", status |-> 0, msg |-> m, data |-> Null]

\* the body returned by the two HTTP handlers on success
Success(d) ==
    [kind |-> "returned", status |-> 200, msg |-> <<"success">>, data |-> d]

\* ------------------------------------------------------------------ state
VARIABLES
    clock,   \* time.time(), in whole seconds
    files,   \* the names of the files under ai_config.snapshot_path
    writes,  \* every file opened for writing: [op, task, name]
    ops      \* per handler invocation: its position and its locals

vars == <<clock, files, writes, ops>>

\* ------------------------------------------------- upload requests (inputs)
TaskT == <<"t">>
TaskSnapshot == <<"s", "n", "a", "p", "s", "h", "o", "t">>

FileNames ==
    { <<"a", ".", "j", "p", "g">>,
      <<"a", ".", "P", "N", "G">>,
      <<"a", ".", "j", "p", "e", "g">>,
      <<".", "j", "p", "g">>,
      <<"a", ".", "g", "i", "f">>,
      <<"j", "p", "g">> }

\* web_request.files['file'] when it is falsy (no filename is read from it)
FalsyFile == [truthy |-> FALSE, filename |-> NoName]

\* the form arguments: a function from the argument names that are present
FormArgs(tasks) ==
    {[k \in {} |-> <<>>]} \cup {[k \in {"task_id"} |-> t] : t \in tasks}

\* the multipart requests of POST /api/v1/device/print/image
UploadRequests(tasks) ==
    LET withFile ==
            {FalsyFile} \cup
            {[truthy |-> TRUE, filename |-> f] : f \in FileNames \cup {NoName}}
    IN  {[hasFile |-> FALSE, file |-> FalsyFile, args |-> a] : a \in FormArgs(tasks)}
        \cup
        {[hasFile |-> TRUE, file |-> f, args |-> a] :
            f \in withFile, a \in FormArgs(tasks)}

NoUpload == [hasFile |-> FALSE, file |-> FalsyFile, args |-> [k \in {} |-> <<>>]]

\* what open(save_path, 'wb') followed by f.write() can do
IoOutcomes == {"ok", "open_fails", "write_fails"}

\* ------------------------------------------------------------ predictor
\* configuration and host info, read only
BaseUrl == "http://ai.example"
HostAddress == "192.168.1.10"
SnapshotPath == "/data/ai_snapshots"

\* a path: its directory and its last component
Path(dir, base) == [dir |-> dir, base |-> base]
\* os.path.basename(path)
Basename(path) == path.base

\* predict_data of _request_prediction
PredictData(image_path, task_id) ==
    [image_url |-> <<"http://", HostAddress, "/server/files/ai_snapshots/",
                     Basename(image_path)>>,
     task_id |-> task_id,
     callback_url |-> <<"http://", HostAddress, "/api/v1/ai/callback">>]

\* the outbound session.post(url, json=predict_data)
PostRequest(image_path, task_id) ==
    [url |-> <<BaseUrl, "/predict">>, json |-> PredictData(image_path, task_id)]

NoSent == [url |-> <<>>, json |-> PredictData(Path("", NoName), <<>>)]

\* what the remote service can answer
LabelOk == "{\"label\":\"ok\"}"
BadImage == "bad image"
Statuses == {200, 201, 422, 500}
Payloads ==
    {[text |-> t, ctype |-> c] :
        t \in {LabelOk, BadImage}, c \in {"application/json", "text/plain"}}

NoRemote == [kind |-> "none", status |-> 0, text |-> "", ctype |-> ""]

\* how the outbound POST can end: a reply, asyncio.TimeoutError after
\* upload_timeout, or an aiohttp.ClientError of the connection
RemoteOutcomes ==
    {[kind |-> "reply", status |-> s, text |-> p.text, ctype |-> p.ctype] :
        s \in Statuses, p \in Payloads}
    \cup {[kind |-> "timeout", status |-> 0, text |-> "", ctype |-> ""],
          [kind |-> "connect", status |-> 0,
           text |-> "Cannot connect to host", ctype |-> ""]}

\* json.loads on the texts of the model
IsJson(text) == text = LabelOk
JsonLoads(text) == IF text = LabelOk THEN <<"object", "label", "ok">> ELSE Null

\* faulty variant: every status below 400 counts as success
StatusOk_Below400(status) == status < 400

\* the test `resp.status != 200`, negated
StatusOk(status) == status = 200

\* faulty variant: the timeout is handled by the ClientError clause
TransportError_AllConnect(remote) ==
    ServerError(<<"Failed to connect to AI service: ", remote.text>>, 503)

\* the two except clauses of _request_prediction
TransportError(remote) ==
    IF remote.kind = "timeout"
    THEN ServerError(<<"AI service request timeout">>, 504)
    ELSE ServerError(<<"Failed to connect to AI service: ", remote.text>>, 503)

\* what _request_prediction returns or raises once the POST has ended.
\* resp.json() raises ContentTypeError (an aiohttp.ClientError) when the
\* reply is not application/json, and ValueError when the text is no JSON.
PredictionResult(remote) ==
    IF remote.kind # "reply"
    THEN TransportError(remote)
    ELSE IF ~StatusOk(remote.status)
    THEN ServerError(<<"AI service returned error: ", remote.text>>,
                     remote.status)
    ELSE IF remote.ctype # "application/json"
    THEN TransportError([remote EXCEPT !.kind = "connect",
                                       !.text = "ContentTypeError"])
    ELSE IF ~IsJson(remote.text)
    THEN RawError(<<"JSONDecodeError">>)
    ELSE Returned(JsonLoads(remote.text))

\* faulty variant: the POST is attempted a second time
IssuePost_Twice(n) == n + 2

\* the number of session.post calls after the one call of the code
IssuePost(n) == n + 1

\* _request_prediction up to its await of the POST
SendPrediction(op, image_path, task_id) ==
    [op EXCEPT !.pc = "posting",
               !.posts = IssuePost(op.posts),
               !.sent = PostRequest(image_path, task_id)]

\* ------------------------------------------------------- predict handler
\* faulty variant: callback_url is not required
RequiredFields_NoCallback == <<"image_url", "task_id">>

\* required_fields of _handle_predict
RequiredFields == <<"image_url", "task_id", "callback_url">>

PredictFieldValue(f) ==
    CASE f = "image_url" -> Path("http://cam", <<"x", ".", "j", "p", "g">>)
      [] f = "task_id" -> TaskT
      [] OTHER -> "http://caller/callback"

NoBody == [f \in {} |-> <<>>]

\* the JSON bodies of POST /api/v1/predict
PredictBodies ==
    {[f \in S |-> PredictFieldValue(f)] :
        S \in SUBSET {"image_url", "task_id", "callback_url"}}

RECURSIVE MissingField(_, _)
\* the loop over required_fields: the first one not in the body, from
\* index i on; "" when none is missing
MissingField(body, i) ==
    IF i > Len(RequiredFields) THEN ""
    ELSE IF RequiredFields[i] \notin DOMAIN body THEN RequiredFields[i]
    ELSE MissingField(body, i + 1)

\* _handle_predict up to its await of _request_prediction
HandlePredict(o, body) ==
    /\ ops[o].pc = "idle"
    /\ LET missing == MissingField(body, 1)
           started == [ops[o] EXCEPT !.kind = "predict", !.body = body]
       IN  ops' = [ops EXCEPT ![o] =
                IF missing # ""
                THEN [started EXCEPT
                        !.pc = "done",
                        !.result = ServerError(
                            <<"Missing required field: ", missing>>, 400)]
                ELSE SendPrediction(
                        [started EXCEPT !.task = body["task_id"]],
                        body["image_url"], body["task_id"])]
    /\ UNCHANGED <<clock, files, writes>>

\* faulty variant: the Predictor's error is re-raised as it is
PredictError_Passthrough(pred) == pred

\* the except clause of _handle_predict: str(e) re-raised with status 500
PredictError(pred) == ServerError(pred.msg, 500)

\* the rest of _handle_predict, once the POST has ended
PredictCompletes(o, remote) ==
    /\ ops[o].kind = "predict"
    /\ ops[o].pc = "posting"
    /\ LET pred == PredictionResult(remote)
       IN  ops' = [ops EXCEPT ![o] =
                [@ EXCEPT !.pc = "done",
                          !.remote = remote,
                          !.pred = pred,
                          !.result = IF pred.kind = "returned"
                                     THEN Success(pred.data)
                                     ELSE PredictError(pred)]]
    /\ UNCHANGED <<clock, files, writes>>

\* ------------------------------------------------------- upload handler
\* WebRequest.get_str(key) without a default
GetStr(args, key) ==
    IF key \in DOMAIN args
    THEN Returned(args[key])
    ELSE ServerError(<<"No data for argument: ", key>>, 400)

\* faulty variant: the suffixes are compared without their dot
ValidFileType_NoDot(filename) ==
    EndsWithAny(Lower(filename), {SubSeq(e, 2, Len(e)) : e \in AllowedExt})

\* filename.endswith(('.jpg', '.jpeg', '.png')) on the lowered file name
ValidFileType(filename) == EndsWithAny(Lower(filename), AllowedExt)

\* f"{task_id}_{timestamp}{os.path.splitext(filename)[1]}"
UploadSaveName(task_id, timestamp, filename) ==
    task_id \o <<"_">> \o IntToStr(timestamp) \o SplitExt(Lower(filename))

\* the four checks of _handle_image_upload, in the order of the code; the
\* outcome is NoOutcome when the request passes them all
UploadValidation(req) ==
    IF ~req.hasFile
    THEN ServerError(<<"No file uploaded">>, 400)
    ELSE IF ~req.file.truthy \/ req.file.filename = NoName
    THEN ServerError(<<"Empty file">>, 400)
    ELSE LET task_id == GetStr(req.args, "task_id")
         IN  IF task_id.kind = "raised"
             THEN task_id
             ELSE IF task_id.data = <<>>
             THEN ServerError(<<"task_id is required">>, 400)
             ELSE IF ~ValidFileType(req.file.filename)
             THEN ServerError(
                    <<"Invalid file type. Only jpg/jpeg/png allowed">>, 400)
             ELSE NoOutcome

\* the result of saving the file: 500 when open() or write() raises
UploadSaveResult(io) ==
    IF io = "ok"
    THEN Success(Null)
    ELSE ServerError(<<"Failed to save image: ", io>>, 500)

IdleOp ==
    [kind |-> "none", pc |-> "idle", upload |-> NoUpload, body |-> NoBody,
     task |-> <<>>, snap |-> "none", saved |-> NoName, io |-> "none",
     posts |-> 0, sent |-> NoSent, remote |-> NoRemote, pred |-> NoOutcome,
     result |-> NoOutcome]

\* _handle_image_upload: it has no await, so it runs as one step
HandleImageUpload(o, req, io) ==
    /\ ops[o].pc = "idle"
    /\ LET invalid == UploadValidation(req)
           started == [ops[o] EXCEPT !.kind = "upload", !.pc = "done",
                                     !.upload = req]
       IN  IF invalid.kind = "raised"
           THEN /\ ops' = [ops EXCEPT ![o] = [started EXCEPT !.result = invalid]]
                /\ UNCHANGED <<files, writes>>
           ELSE LET task_id == req.args["task_id"]
                    name == UploadSaveName(task_id, clock, req.file.filename)
                IN  /\ ops' = [ops EXCEPT ![o] =
                            [started EXCEPT
                                !.task = task_id,
                                !.io = io,
                                !.saved = IF io = "open_fails" THEN NoName ELSE name,
                                !.result = UploadSaveResult(io)]]
                    /\ files' = IF io = "open_fails" THEN files
                                ELSE files \cup {name}
                    /\ writes' = IF io = "open_fails" THEN writes
                                 ELSE writes \cup
                                      {[op |-> o, task |-> task_id, name |-> name]}
    /\ UNCHANGED clock

\* ------------------------------------------------------ snapshot handler
\* what webcam.take_snapshot() can do
SnapshotOutcomes == {"nil", "bytes", "raises"}

\* f"snapshot_{int(time.time())}"
SnapshotTaskId(now) == TaskSnapshot \o <<"_">> \o IntToStr(now)

\* f"{task_id}.jpg"
SnapshotSaveName(task_id) == task_id \o DotJpg

\* faulty variant: the None test is missing
SnapshotMissing_Never(snap) == FALSE

\* the test `snapshot is None`
SnapshotMissing(snap) == snap = "nil"

\* faulty variant: a failed write does not stop the handler
SavedOk_Always(io) == TRUE

\* whether the with-open block ended without raising
SavedOk(io) == io = "ok"

\* the except clause of _handle_snapshot_request
SnapshotError(text) ==
    ServerError(<<"Failed to process snapshot: ">> \o text, 500)

\* _handle_snapshot_request up to its await of webcam.take_snapshot()
HandleSnapshotRequest(o) ==
    /\ ops[o].pc = "idle"
    /\ ops' = [ops EXCEPT ![o] =
            [@ EXCEPT !.kind = "snapshot", !.pc = "capturing",
                      !.task = SnapshotTaskId(clock)]]
    /\ UNCHANGED <<clock, files, writes>>

\* from the end of take_snapshot() to the await of the POST: the None test,
\* the file write and the call of _request_prediction
SnapshotCaptured(o, snap, io) ==
    /\ ops[o].kind = "snapshot"
    /\ ops[o].pc = "capturing"
    /\ LET task_id == ops[o].task
           name == SnapshotSaveName(task_id)
           got == [ops[o] EXCEPT !.snap = snap]
       IN  IF snap = "raises"
           THEN /\ ops' = [ops EXCEPT ![o] =
                        [got EXCEPT !.pc = "done",
                                    !.result = SnapshotError(<<"capture failed">>)]]
                /\ UNCHANGED <<files, writes>>
           ELSE IF SnapshotMissing(snap)
           THEN /\ ops' = [ops EXCEPT ![o] =
                        [got EXCEPT !.pc = "done", !.result = Returned(Null)]]
                /\ UNCHANGED <<files, writes>>
           ELSE LET opened == io # "open_fails"
                    wrote == [got EXCEPT !.io = io,
                                         !.saved = IF opened THEN name ELSE NoName]
                IN  /\ files' = IF opened THEN files \cup {name} ELSE files
                    /\ writes' = IF opened
                                 THEN writes \cup
                                      {[op |-> o, task |-> task_id, name |-> name]}
                                 ELSE writes
                    /\ ops' = [ops EXCEPT ![o] =
                            IF SavedOk(io)
                            THEN SendPrediction(
                                    wrote, Path(SnapshotPath, name), task_id)
                            ELSE [wrote EXCEPT !.pc = "done",
                                               !.result = SnapshotError(<<io>>)]]
    /\ UNCHANGED clock

\* the rest of _handle_snapshot_request, once the POST has ended
SnapshotCompletes(o, remote) ==
    /\ ops[o].kind = "snapshot"
    /\ ops[o].pc = "posting"
    /\ LET pred == PredictionResult(remote)
       IN  ops' = [ops EXCEPT ![o] =
                [@ EXCEPT !.pc = "done",
                          !.remote = remote,
                          !.pred = pred,
                          !.result = IF pred.kind = "returned"
                                     THEN Returned(Null)
                                     ELSE SnapshotError(pred.msg)]]
    /\ UNCHANGED <<clock, files, writes>>

\* the wall clock advances
Tick ==
    /\ clock < StartTime + MaxTicks
    /\ clock' = clock + 1
    /\ UNCHANGED <<files, writes, ops>>

Init ==
    /\ clock = StartTime
    /\ files = {}
    /\ writes = {}
    /\ ops = [o \in Ops |-> IdleOp]

\* the task ids of the uploads: empty and plain
UploadTasks == {<<>>, TaskT}

Upload ==
    \E o \in Ops, req \in UploadRequests(UploadTasks), io \in IoOutcomes :
        HandleImageUpload(o, req, io)

NextUpload == Tick \/ Upload

\* only uploads arrive
SpecUpload == Init /\ [][NextUpload]_vars

Predict == \E o \in Ops, body \in PredictBodies : HandlePredict(o, body)

PredictEnds ==
    \E o \in Ops, remote \in RemoteOutcomes : PredictCompletes(o, remote)

NextPredict == Predict \/ PredictEnds

\* only direct prediction requests arrive
SpecPredict == Init /\ [][NextPredict]_vars

Snapshot == \E o \in Ops : HandleSnapshotRequest(o)

Captured ==
    \E o \in Ops, snap \in SnapshotOutcomes, io \in IoOutcomes :
        SnapshotCaptured(o, snap, io)

SnapshotEnds ==
    \E o \in Ops, remote \in RemoteOutcomes : SnapshotCompletes(o, remote)

NextSnapshot == Tick \/ Snapshot \/ Captured \/ SnapshotEnds

\* only snapshot triggers fire
SpecSnapshot == Init /\ [][NextSnapshot]_vars

\* with every handler running, uploads may also carry the prefix of the
\* snapshot task ids as their task id
MixedUploads == UploadRequests({<<>>, TaskT, TaskSnapshot})

MixedUpload ==
    \E o \in Ops, req \in MixedUploads, io \in IoOutcomes :
        HandleImageUpload(o, req, io)

Next ==
    \/ Tick
    \/ MixedUpload
    \/ Snapshot \/ Captured \/ SnapshotEnds
    \/ Predict \/ PredictEnds

\* every handler, interleaved
Spec == Init /\ [][Next]_vars

\* ================================================================ claims
\* helpers of the claims; they restate the specification, not the code

\* whether a message holds a piece of text
Contains(msg, piece) == \E i \in 1..Len(msg) : msg[i] = piece

\* whether the file name, lowered, ends with the extension e
HasExtension(filename, e) ==
    /\ Len(e) <= Len(filename)
    /\ \A i \in 1..Len(e) :
          LowerChar(filename[Len(filename) - Len(e) + i]) = e[i]

\* the first of the four upload checks that the request fails, 0 when none
FirstFailingCheck(req) ==
    IF ~req.hasFile THEN 1
    ELSE IF ~req.file.truthy \/ req.file.filename = NoName THEN 2
    ELSE IF "task_id" \notin DOMAIN req.args \/ req.args["task_id"] = <<>> THEN 3
    ELSE IF ~\E e \in AllowedExt : HasExtension(req.file.filename, e) THEN 4
    ELSE 0

\* the upload check an error message reports, 0 when it reports none
ReportedCheck(result) ==
    IF result.kind # "raised" \/ result.msg = <<>> THEN 0
    ELSE CASE result.msg[1] = "No file uploaded" -> 1
           [] result.msg[1] = "Empty file" -> 2
           [] result.msg[1] = "task_id is required" -> 3
           [] result.msg = <<"No data for argument: ", "task_id">> -> 3
           [] result.msg[1] = "Invalid file type. Only jpg/jpeg/png allowed" -> 4
           [] OTHER -> 0

WritesOf(o) == {w \in writes : w.op = o}

\* C1: an upload that fails one of the four checks ends with a 400 error
\* reported for the first failing check, and leaves the files under
\* snapshot_path as they were.
C1_FailedUploadIs400 ==
    [][\A o \in Ops :
        (/\ ops[o].pc = "idle"
         /\ ops'[o].kind = "upload"
         /\ FirstFailingCheck(ops'[o].upload) # 0)
        => /\ ops'[o].pc = "done"
           /\ ops'[o].result.kind = "raised"
           /\ ops'[o].result.status = 400
           /\ ReportedCheck(ops'[o].result) = FirstFailingCheck(ops'[o].upload)
           /\ files' = files
           /\ writes' = writes]_vars

\* an upload failed the extension check while a file was already stored
C1_Witness ==
    \E o, u \in Ops :
        /\ ops[o].kind = "upload" /\ ops[o].pc = "done"
        /\ FirstFailingCheck(ops[o].upload) = 4
        /\ ops[o].result.status = 400
        /\ ops[u].saved \in files

\* C8: a valid upload whose write succeeds stores exactly one file named
\* <taskId>_<unixSeconds><ext>, returns {200, success, null} and issues no
\* prediction request.
C8_ValidUploadStored ==
    \A o \in Ops :
        (/\ ops[o].kind = "upload" /\ ops[o].pc = "done"
         /\ FirstFailingCheck(ops[o].upload) = 0
         /\ ops[o].io = "ok")
        => /\ \E ts \in StartTime..clock, e \in AllowedExt :
                /\ HasExtension(ops[o].upload.file.filename, e)
                /\ ops[o].saved =
                     ops[o].upload.args["task_id"] \o <<"_">> \o IntToStr(ts) \o e
           /\ ops[o].saved \in files
           /\ Cardinality(WritesOf(o)) = 1
           /\ ops[o].result = Success(Null)
           /\ ops[o].posts = 0

\* C9: two operations with different task identifiers never write to the
\* same file under snapshot_path.
C9_DifferentTasksDifferentFiles ==
    \A w1, w2 \in writes : w1.task # w2.task => w1.name # w2.name

\* the calls of _request_prediction whose POST has ended
Called(o) == ops[o].pred.kind # "none"

\* a reply whose body resp.json() can parse
Parseable(remote) ==
    remote.ctype = "application/json" /\ remote.text = LabelOk

\* C2, as stated: for a reply received within the timeout, the parsed body
\* is returned unchanged if and only if the status is 2xx, and every non-2xx
\* status fails with that status and a reason holding the remote body.
C2_ReturnsIff2xx ==
    \A o \in Ops :
        (Called(o) /\ ops[o].remote.kind = "reply" /\ Parseable(ops[o].remote))
        => /\ (ops[o].pred.kind = "returned")
                <=> (ops[o].remote.status \in 200..299)
           /\ ops[o].remote.status \notin 200..299
                => /\ ops[o].pred.kind = "raised"
                   /\ ops[o].pred.status = ops[o].remote.status
                   /\ Contains(ops[o].pred.msg, ops[o].remote.text)

\* C2, amended: the parsed body is returned unchanged if and only if the
\* status is exactly 200 (and the body is parseable JSON); every other
\* status, 201..299 included, fails with that status and a reason holding
\* the remote body.
C2_ReturnsIff200 ==
    \A o \in Ops :
        (Called(o) /\ ops[o].remote.kind = "reply")
        => /\ (ops[o].pred.kind = "returned")
                <=> (ops[o].remote.status = 200 /\ Parseable(ops[o].remote))
           /\ ops[o].pred.kind = "returned"
                => ops[o].pred.data = <<"object", "label", "ok">>
           /\ ops[o].remote.status # 200
                => /\ ops[o].pred.kind = "raised"
                   /\ ops[o].pred.status = ops[o].remote.status
                   /\ Contains(ops[o].pred.msg, ops[o].remote.text)

\* one call got 200 and returned the body, another got 422 "bad image"
C2_Witness ==
    \E o, u \in Ops :
        /\ ops[o].remote.kind = "reply" /\ ops[o].remote.status = 200
        /\ ops[o].pred.kind = "returned"
        /\ ops[u].remote.kind = "reply" /\ ops[u].remote.status = 422
        /\ ops[u].remote.text = BadImage
        /\ ops[u].pred.status = 422

\* C3: when the Predictor call of handlePredict fails, the error returned to
\* the caller carries the classified status: 504 on timeout, 503 on
\* connection failure, the remote status on a rejection.
C3_PredictKeepsStatus ==
    \A o \in Ops :
        (/\ ops[o].kind = "predict" /\ ops[o].pc = "done"
         /\ ops[o].pred.kind = "raised")
        => /\ ops[o].result.kind = "raised"
           /\ ops[o].remote.kind = "timeout" => ops[o].result.status = 504
           /\ ops[o].remote.kind = "connect" => ops[o].result.status = 503
           /\ (ops[o].remote.kind = "reply" /\ ops[o].remote.status >= 400)
                => ops[o].result.status = ops[o].remote.status

\* C3, amended: when the Predictor call of handlePredict fails, the error
\* returned to the caller has status 500 and the Predictor's message; the
\* classified status (504, 503, the remote status) is not surfaced.
C3_PredictFailureIs500 ==
    \A o \in Ops :
        (/\ ops[o].kind = "predict" /\ ops[o].pc = "done"
         /\ ops[o].pred.kind = "raised")
        => /\ ops[o].result.kind = "raised"
           /\ ops[o].result.status = 500
           /\ ops[o].result.msg = ops[o].pred.msg

\* a direct prediction timed out and another was rejected with 422
C3_Witness ==
    \E o, u \in Ops :
        /\ ops[o].kind = "predict" /\ ops[o].pc = "done"
        /\ ops[o].remote.kind = "timeout" /\ ops[o].pred.status = 504
        /\ ops[u].kind = "predict" /\ ops[u].pc = "done"
        /\ ops[u].remote.status = 422 /\ ops[u].pred.status = 422

\* C4: a call whose POST ends in a transport failure never returns a
\* Result: it fails with 504 on timeout and with 503 when the connection
\* cannot be established.
C4_TransportFailures ==
    \A o \in Ops :
        Called(o)
        => /\ ops[o].remote.kind = "timeout"
                => ops[o].pred.kind = "raised" /\ ops[o].pred.status = 504
           /\ ops[o].remote.kind = "connect"
                => ops[o].pred.kind = "raised" /\ ops[o].pred.status = 503

\* one call timed out, another could not connect
C4_Witness ==
    \E o, u \in Ops :
        /\ ops[o].remote.kind = "timeout" /\ ops[o].pred.status = 504
        /\ ops[u].remote.kind = "connect" /\ ops[u].pred.status = 503

\* the fields handlePredict requires, in the order of the specification
ClaimFields == <<"image_url", "task_id", "callback_url">>

MissingIn(body) == {i \in 1..Len(ClaimFields) : ClaimFields[i] \notin DOMAIN body}

FirstMissing(body) ==
    ClaimFields[CHOOSE i \in MissingIn(body) : \A j \in MissingIn(body) : i <= j]

\* C6: a handlePredict body that lacks a required field fails with a 400
\* error naming the first missing field in the order image_url, task_id,
\* callback_url, and no outbound request is issued.
C6_MissingFieldIs400 ==
    \A o \in Ops :
        (ops[o].kind = "predict" /\ MissingIn(ops[o].body) # {})
        => /\ ops[o].pc = "done"
           /\ ops[o].result =
                ServerError(<<"Missing required field: ",
                              FirstMissing(ops[o].body)>>, 400)
           /\ ops[o].posts = 0
           /\ ops[o].sent = NoSent
           /\ ~Called(o)

\* {"task_id": ...} alone is refused naming image_url, and a body that lacks
\* only callback_url is refused too
C6_Witness ==
    \E o, u \in Ops :
        /\ ops[o].kind = "predict" /\ DOMAIN ops[o].body = {"task_id"}
        /\ Contains(ops[o].result.msg, "image_url")
        /\ ops[u].kind = "predict"
        /\ DOMAIN ops[u].body = {"image_url", "task_id"}
        /\ Contains(ops[u].result.msg, "callback_url")

\* C7: every invocation of requestPrediction issues exactly one outbound
\* POST to {base_url}/predict, whatever the outcome.
C7_ExactlyOnePost ==
    \A o \in Ops :
        /\ ops[o].posts = IF ops[o].pc = "posting" \/ Called(o) THEN 1 ELSE 0
        /\ ops[o].posts > 0 => ops[o].sent.url = <<BaseUrl, "/predict">>

\* a call that timed out and a call that succeeded, one POST each
C7_Witness ==
    \E o, u \in Ops :
        /\ ops[o].remote.kind = "timeout" /\ ops[o].pred.kind = "raised"
        /\ ops[o].posts = 1
        /\ ops[u].pred.kind = "returned" /\ ops[u].posts = 1

\* C5: when the capture returns no image, the Snapshot Handler returns
\* without an error, having written no file and issued no request.
C5_NoImageNoEffect ==
    \A o \in Ops :
        (ops[o].kind = "snapshot" /\ ops[o].snap = "nil")
        => /\ ops[o].pc = "done"
           /\ ops[o].result.kind = "returned"
           /\ WritesOf(o) = {}
           /\ ops[o].saved = NoName
           /\ ops[o].posts = 0
           /\ ops[o].sent = NoSent

\* a capture returned no image while another snapshot was stored
C5_Witness ==
    \E o, u \in Ops :
        /\ ops[o].kind = "snapshot" /\ ops[o].snap = "nil" /\ ops[o].pc = "done"
        /\ ops[u].kind = "snapshot" /\ ops[u].saved \in files

\* C10: the Snapshot Handler calls the Predictor only after the image is
\* written to <taskId>.jpg; a failed write ends with a 500 error and no
\* request; a failed prediction ends with a 500 error and the file remains.
C10_PersistBeforePredict ==
    \A o \in Ops :
        ops[o].kind = "snapshot"
        => /\ ops[o].posts > 0
                => /\ ops[o].io = "ok"
                   /\ ops[o].saved = ops[o].task \o DotJpg
                   /\ ops[o].saved \in files
           /\ ops[o].io \in {"open_fails", "write_fails"}
                => /\ ops[o].pc = "done"
                   /\ ops[o].result.kind = "raised"
                   /\ ops[o].result.status = 500
                   /\ ops[o].posts = 0
           /\ ops[o].pred.kind = "raised"
                => /\ ops[o].result.kind = "raised"
                   /\ ops[o].result.status = 500
                   /\ ops[o].saved \in files

\* one snapshot could not be written, another was written and its
\* prediction then failed
C10_Witness ==
    \E o, u \in Ops :
        /\ ops[o].kind = "snapshot" /\ ops[o].io = "write_fails"
        /\ ops[o].result.status = 500
        /\ ops[u].kind = "snapshot" /\ ops[u].pred.kind = "raised"
        /\ ops[u].result.status = 500 /\ ops[u].saved \in files

====
